---------------------------- MODULE Spec2Model ----------------------------
(* A model of static/script.js: the cluster grid rendered by displayResults,  *)
(* re-ordered by sortClusters, and the submit handler that feeds it.          *)
(*                                                                            *)
(* Strings are sequences of one-character strings, so that parsing and        *)
(* formatting are computed, not assumed.  Numbers produced by parseFloat are  *)
(* exact decimal fractions [nan, n, d] standing for n / d with d a power of   *)
(* ten, or NaN.                                                               *)
EXTENDS Integers, Sequences, FiniteSets

VARIABLES
    form,               \* values of the form fields the submit handler reads
    requests,           \* how many submit handlers wait at each await or alert
    spinner,            \* #loadingSpinner style.display
    resultsSection,     \* #resultsSection style.display
    warnings,           \* number of .alert-warning nodes inside #resultsSection
    aggregateDisplay,   \* #aggregateDisplay content
    clusterGrid,        \* #clusterGrid children, in document order
    topClustersGrid,    \* #topClustersGrid children, in document order
    topClustersSection, \* #topClustersSection style.display
    activeBtn,          \* the .sort-btn carrying class "active"
    alertMsg,           \* the text of the open alert() dialog, "none" if none
    data,               \* the payload of the last displayResults call
    clusters,           \* displayResults' local array as constructed (lines 113-126)
    lastOp,             \* the last operation that wrote the cluster grid
    fmtIn,              \* argument of a direct formatClusterPoints call
    fmtOut,             \* its result
    modal               \* #clusterDetailsModal: its title, its content, whether it is shown

vars == <<form, requests, spinner, resultsSection, warnings, aggregateDisplay,
          clusterGrid, topClustersGrid, topClustersSection, activeBtn, alertMsg,
          data, clusters, lastOp, fmtIn, fmtOut, modal>>

(***************************************************************************)
(* Bounds of the model                                                     *)
(***************************************************************************)
\* largest cluster id that payloads carry a key for (besides LoopMax + 1)
MaxKey == 3
\* length of the exhaustively enumerated formatClusterPoints arguments
MaxLen == 3
\* number of submit handlers that may be suspended at once
MaxInFlight == 2
\* cap on the number of warning alerts accumulated in the results section
MaxWarnings == 2

(***************************************************************************)
(* Program constants                                                       *)
(***************************************************************************)
\* for (let i = 1; i <= 20; i++)
LoopMax == 20
\* clusters.slice(0, 3)
TopN == 3
\* if (num >= 30)
HighMin == 30
\* if (num >= 15)
MediumMin == 15

(***************************************************************************)
(* Characters, strings and numbers                                         *)
(***************************************************************************)
Digits == {"0", "1", "2", "3", "4", "5", "6", "7", "8", "9"}

DigitVal(c) ==
    CASE c = "0" -> 0 [] c = "1" -> 1 [] c = "2" -> 2 [] c = "3" -> 3
      [] c = "4" -> 4 [] c = "5" -> 5 [] c = "6" -> 6 [] c = "7" -> 7
      [] c = "8" -> 8 [] c = "9" -> 9

DigitChar(v) ==
    CASE v = 0 -> "0" [] v = 1 -> "1" [] v = 2 -> "2" [] v = 3 -> "3"
      [] v = 4 -> "4" [] v = 5 -> "5" [] v = 6 -> "6" [] v = 7 -> "7"
      [] v = 8 -> "8" [] v = 9 -> "9"

RECURSIVE Pow10(_)
Pow10(k) == IF k = 0 THEN 1 ELSE 10 * Pow10(k - 1)

\* number of leading digits of s starting at position i
RECURSIVE DigitRun(_, _)
DigitRun(s, i) ==
    IF i <= Len(s) /\ s[i] \in Digits THEN 1 + DigitRun(s, i + 1) ELSE 0

\* value of the k digits of s starting at position i
RECURSIVE DigitsVal(_, _, _)
DigitsVal(s, i, k) ==
    IF k = 0 THEN 0 ELSE DigitsVal(s, i, k - 1) * 10 + DigitVal(s[i + k - 1])

NaN == [nan |-> TRUE, n |-> 0, d |-> 1]

Num(k) == [nan |-> FALSE, n |-> k, d |-> 1]

\* parseFloat over strings without whitespace, "+", exponent or "Infinity":
\* an optional "-", digits, an optional "." and digits; the longest such
\* prefix is the value, and NaN when that prefix holds no digit.
parseFloat(s) ==
    LET neg == Len(s) > 0 /\ s[1] = "-"
        b == IF neg THEN 1 ELSE 0
        ni == DigitRun(s, b + 1)
        dot == b + 1 + ni <= Len(s) /\ s[b + 1 + ni] = "."
        nf == IF dot THEN DigitRun(s, b + 2 + ni) ELSE 0
        mag == DigitsVal(s, b + 1, ni) * Pow10(nf) + DigitsVal(s, b + 2 + ni, nf)
    IN  IF ni + nf = 0 THEN NaN
        ELSE [nan |-> FALSE, n |-> IF neg THEN 0 - mag ELSE mag, d |-> Pow10(nf)]

\* parseInt over the same strings: an optional "-" and digits
parseInt(s) ==
    LET neg == Len(s) > 0 /\ s[1] = "-"
        b == IF neg THEN 1 ELSE 0
        ni == DigitRun(s, b + 1)
        mag == DigitsVal(s, b + 1, ni)
    IN  IF ni = 0 THEN NaN
        ELSE [nan |-> FALSE, n |-> IF neg THEN 0 - mag ELSE mag, d |-> 1]

\* `${i}` for a small non-negative integer
ToString(i) ==
    IF i < 10 THEN <<DigitChar(i)>>
    ELSE <<DigitChar(i \div 10), DigitChar(i % 10)>>

\* comparisons of JavaScript numbers: each is false when an operand is NaN
NumLt(a, b) == ~a.nan /\ ~b.nan /\ a.n * b.d < b.n * a.d
NumEq(a, b) == ~a.nan /\ ~b.nan /\ a.n * b.d = b.n * a.d
NumGe(a, b) == ~a.nan /\ ~b.nan /\ a.n * b.d >= b.n * a.d
NumGt(a, b) == NumLt(b, a)

\* the sign of a - b as Array.prototype.sort reads it: NaN counts as +0
SignOfDiff(a, b) ==
    IF NumLt(a, b) THEN -1 ELSE IF NumGt(a, b) THEN 1 ELSE 0

\* s.replace(/[^\d.]/g, '')
RECURSIVE StripNonNumeric(_)
StripNonNumeric(s) ==
    IF s = <<>> THEN <<>>
    ELSE (IF Head(s) \in Digits \cup {"."} THEN <<Head(s)>> ELSE <<>>)
         \o StripNonNumeric(Tail(s))

(***************************************************************************)
(* The comparators handed to Array.prototype.sort                          *)
(***************************************************************************)
\* a comparator that sorts by ascending points: (a, b) => a.points - b.points
ByPointsAsc(a, b) == SignOfDiff(a.points, b.points)

\* (a, b) => b.points - a.points
ByPointsDesc(a, b) == SignOfDiff(b.points, a.points)

\* a comparator whose 'number' case is bId - aId
CardCmpNumberDesc(sortType, a, b) ==
    CASE sortType = "number" -> SignOfDiff(b.id, a.id)
      [] sortType = "points" -> SignOfDiff(b.points, a.points)
      [] sortType = "non-zero" ->
            IF NumEq(a.points, Num(0)) /\ NumGt(b.points, Num(0)) THEN 1
            ELSE IF NumGt(a.points, Num(0)) /\ NumEq(b.points, Num(0)) THEN -1
            ELSE SignOfDiff(b.points, a.points)
      [] OTHER -> SignOfDiff(b.id, a.id)

\* the comparator of lines 223-234 over parsed cards
CardCmp(sortType, a, b) ==
    CASE sortType = "number" -> SignOfDiff(a.id, b.id)
      [] sortType = "points" -> SignOfDiff(b.points, a.points)
      [] sortType = "non-zero" ->
            IF NumEq(a.points, Num(0)) /\ NumGt(b.points, Num(0)) THEN 1
            ELSE IF NumGt(a.points, Num(0)) /\ NumEq(b.points, Num(0)) THEN -1
            ELSE SignOfDiff(b.points, a.points)
      [] OTHER -> SignOfDiff(a.id, b.id)

\* the comparator named cmp applied to a and b: "byPointsDesc" is the one of
\* line 129, a sort type names the one of lines 217-235 for that sortType
Compare(cmp, a, b) ==
    IF cmp = "byPointsDesc" THEN ByPointsDesc(a, b) ELSE CardCmp(cmp, a, b)

(***************************************************************************)
(* Array.prototype.sort                                                    *)
(***************************************************************************)
SeqRange(s) == {s[i] : i \in 1..Len(s)}

\* ECMAScript's "consistent comparator" over the values being sorted: the
\* comparator is a strict weak ordering of them (its answers are antisymmetric
\* and "not after" is transitive)
Consistent(s, cmp) ==
    /\ \A a \in SeqRange(s), b \in SeqRange(s) :
        /\ (Compare(cmp, a, b) = 0) => (Compare(cmp, b, a) = 0)
        /\ (Compare(cmp, a, b) < 0) => (Compare(cmp, b, a) > 0)
    /\ \A a \in SeqRange(s), b \in SeqRange(s) :
        (Compare(cmp, a, b) <= 0) =>
            \A c \in SeqRange(s) :
                (Compare(cmp, b, c) <= 0) => (Compare(cmp, a, c) <= 0)

\* a sort that is not stable: of the elements that compare equal, the one
\* that came last in the input goes first
LastFirstSort(s, cmp) ==
    LET pos(i) == 1 + Cardinality({j \in 1..Len(s) :
                        \/ Compare(cmp, s[j], s[i]) < 0
                        \/ Compare(cmp, s[j], s[i]) = 0 /\ j > i})
        out[k \in 0..Len(s)] ==
            IF k = 0 THEN <<>>
            ELSE Append(out[k - 1], s[CHOOSE i \in 1..Len(s) : pos(i) = k])
    IN  out[Len(s)]

\* the stable sort ECMAScript 2019 requires, for a consistent comparator:
\* an element goes behind those that compare before it and behind the equal
\* ones that preceded it in the input
StableSort(s, cmp) ==
    LET pos(i) == 1 + Cardinality({j \in 1..Len(s) :
                        \/ Compare(cmp, s[j], s[i]) < 0
                        \/ Compare(cmp, s[j], s[i]) = 0 /\ j < i})
        out[k \in 0..Len(s)] ==
            IF k = 0 THEN <<>>
            ELSE Append(out[k - 1], s[CHOOSE i \in 1..Len(s) : pos(i) = k])
    IN  out[Len(s)]

Permutations(s) ==
    {[i \in 1..Len(s) |-> s[p[i]]] :
        p \in {q \in [1..Len(s) -> 1..Len(s)] :
                  \A i, j \in 1..Len(s) : q[i] = q[j] => i = j}}

\* the orders s.sort(cmp) may produce: the stable order for a consistent
\* comparator, an implementation-defined order otherwise
SortOutcomes(s, cmp) ==
    IF Consistent(s, cmp) THEN {StableSort(s, cmp)} ELSE Permutations(s)

(***************************************************************************)
(* formatClusterPoints                                                     *)
(***************************************************************************)
ZeroText == <<"0", ".", "0", "0", "0">>

\* formatClusterPoints with the first test written num > 30
formatClusterPointsStrict(points) ==
    LET num == parseFloat(points)
    IN  IF NumGt(num, Num(HighMin)) THEN [cls |-> "points-high", text |-> points]
        ELSE IF NumGe(num, Num(MediumMin)) THEN [cls |-> "points-medium", text |-> points]
        ELSE IF NumGt(num, Num(0)) THEN [cls |-> "", text |-> points]
        ELSE [cls |-> "points-zero", text |-> <<"0", ".", "0", "0", "0">>]

\* the returned markup: the class of the wrapping span ("" for bare text)
\* and its text content
formatClusterPoints(points) ==
    LET num == parseFloat(points)
    IN  IF NumGe(num, Num(HighMin)) THEN [cls |-> "points-high", text |-> points]
        ELSE IF NumGe(num, Num(MediumMin)) THEN [cls |-> "points-medium", text |-> points]
        ELSE IF NumGt(num, Num(0)) THEN [cls |-> "", text |-> points]
        ELSE [cls |-> "points-zero", text |-> ZeroText]

(***************************************************************************)
(* Payloads: the parsed JSON body of a /calculate response.  The key       *)
(* "Cluster k" of results and details is represented by the integer k.     *)
(***************************************************************************)
StrEmpty == <<>>
StrNotANumber == <<"n", "/", "a">>
Str0 == <<"0", ".", "0", "0", "0">>
Str15 == <<"1", "5", ".", "0", "0", "0">>
Str32 == <<"3", "2", ".", "5", "0", "0">>

\* the three-decimal strings of non-negative points the scoring service sends
CanonicalStrs == {Str0, Str15, Str32}

\* `Cluster ${i}`
ClusterKey(i) == <<"Cluster ">> \o ToString(i)

DetailOf(k) == [description |-> <<"about ">> \o ToString(k), subjects_used |-> <<>>]

\* every mapping from a set of keys in ids to a value in vals
Mappings(ids, vals) == UNION {[K -> vals] : K \in SUBSET ids}

\* f extended by the key k with value v
WithKey(f, k, v) == [i \in DOMAIN f \cup {k} |-> IF i = k THEN v ELSE f[i]]

NoData ==
    [success |-> FALSE, results |-> <<>>, details |-> <<>>, aggregate_points |-> 0,
     top_7_subjects |-> <<>>, warning |-> "", error |-> ""]

SuccessPayload(res, det, agg, top7, warn) ==
    [success |-> TRUE, results |-> res, details |-> det, aggregate_points |-> agg,
     top_7_subjects |-> top7, warning |-> warn, error |-> ""]

(***************************************************************************)
(* displayResults                                                          *)
(***************************************************************************)
\* the loop with the test written (clusterKey in data.results): an empty
\* string gets a record too
RECURSIVE BuildClustersKeyIn(_, _)
BuildClustersKeyIn(d, n) ==
    IF n = 0 THEN <<>>
    ELSE BuildClustersKeyIn(d, n - 1) \o
         (IF n \in DOMAIN d.results
          THEN <<[id |-> n,
                  name |-> <<"Cluster ">> \o ToString(n),
                  points |-> parseFloat(d.results[n]),
                  pointsFormatted |-> d.results[n],
                  description |-> IF n \in DOMAIN d.details
                                  THEN d.details[n].description ELSE <<>>]>>
          ELSE <<>>)

\* lines 113-126: one record per i in 1..n whose key holds a truthy string
RECURSIVE BuildClusters(_, _)
BuildClusters(d, n) ==
    IF n = 0 THEN <<>>
    ELSE BuildClusters(d, n - 1) \o
         (IF n \in DOMAIN d.results /\ d.results[n] # StrEmpty
          THEN <<[id |-> n,
                  name |-> ClusterKey(n),
                  points |-> parseFloat(d.results[n]),
                  pointsFormatted |-> d.results[n],
                  description |-> IF n \in DOMAIN d.details
                                  THEN d.details[n].description ELSE <<>>]>>
          ELSE <<>>)

\* lines 136-163: the card appended to #clusterGrid for one cluster
ClusterCard(c) ==
    [number |-> ToString(c.id),
     pointsCls |-> formatClusterPoints(c.pointsFormatted).cls,
     pointsText |-> formatClusterPoints(c.pointsFormatted).text,
     name |-> c.name,
     description |-> c.description,
     className |-> IF NumEq(c.points, Num(0)) THEN "cluster-card zero"
                   ELSE IF NumGe(c.points, Num(HighMin)) THEN "cluster-card highlight"
                   ELSE "cluster-card ",
     badge |-> 0,
     display |-> ""]

\* lines 170-198: the card appended to #topClustersGrid; badge is the k of "Top k"
TopCard(c, k) ==
    [number |-> ToString(c.id),
     pointsCls |-> formatClusterPoints(c.pointsFormatted).cls,
     pointsText |-> formatClusterPoints(c.pointsFormatted).text,
     name |-> c.name,
     description |-> c.description,
     className |-> "cluster-card highlight",
     badge |-> k,
     display |-> ""]

\* sorted.indexOf(c) + 1
IndexOf(sorted, c) == CHOOSE i \in 1..Len(sorted) : sorted[i] = c /\ \A j \in 1..(i - 1) : sorted[j] # c

\* clusters.slice(0, 2)
TopSliceTwo(sorted) == SubSeq(sorted, 1, IF Len(sorted) < 2 THEN Len(sorted) ELSE 2)

\* clusters.filter(c => c.points !== 0).slice(0, 3)
TopSliceNonZero(sorted) ==
    LET nz == SelectSeq(sorted, LAMBDA c : ~NumEq(c.points, Num(0)))
    IN  SubSeq(nz, 1, IF Len(nz) < 3 THEN Len(nz) ELSE 3)

\* clusters.slice(0, 3)
TopSlice(sorted) == SubSeq(sorted, 1, IF Len(sorted) < TopN THEN Len(sorted) ELSE TopN)

displayResults(d) ==
    /\ resultsSection' = "block"
    /\ aggregateDisplay' = IF d.aggregate_points # 0
                           THEN [points |-> d.aggregate_points, top7 |-> d.top_7_subjects]
                           ELSE aggregateDisplay
    /\ clusters' = BuildClusters(d, LoopMax)
    /\ \E sorted \in SortOutcomes(clusters', "byPointsDesc") :
        LET topClusters == TopSlice(sorted)
        IN  /\ clusterGrid' = [i \in 1..Len(sorted) |-> ClusterCard(sorted[i])]
            /\ topClustersGrid' = [i \in 1..Len(topClusters) |->
                                      TopCard(topClusters[i], IndexOf(sorted, topClusters[i]))]
            /\ topClustersSection' = IF Len(topClusters) > 0 THEN "block" ELSE "none"
    /\ data' = d
    /\ lastOp' = "render"

(***************************************************************************)
(* sortClusters                                                            *)
(***************************************************************************)
SortTypes == {"number", "points", "non-zero"}

\* parseInt(card.querySelector('.cluster-number').textContent)
CardId(card) == parseInt(card.number)

\* parseFloat(card.querySelector('.cluster-points').textContent
\*                .replace(/[^\d.]/g, '') || 0)
CardPoints(card) ==
    LET digits == StripNonNumeric(card.pointsText)
    IN  parseFloat(IF digits = <<>> THEN <<"0">> ELSE digits)

\* a card with the two values the comparator reads off it (lines 218-221)
RECURSIVE Parsed(_)
Parsed(cards) ==
    IF cards = <<>> THEN <<>>
    ELSE <<[card |-> Head(cards), id |-> CardId(Head(cards)),
            points |-> CardPoints(Head(cards))]>> \o Parsed(Tail(cards))

\* the cards of the whole document: document.getElementsByClassName('cluster-card')
DocumentCards == clusterGrid \o topClustersGrid

\* clusterGrid.getElementsByClassName('cluster-card')
GridCards == clusterGrid

\* a filter that hides nothing
DisplayAlwaysBlock(sortType, p) == "block"

\* lines 241-248: style.display of a parsed card after a sort of the given type
DisplayAfter(sortType, p) ==
    IF sortType = "non-zero"
    THEN (IF NumEq(p.points, Num(0)) THEN "none" ELSE "block")
    ELSE "block"

\* a sort that takes the hidden cards out of the grid instead of hiding them
ShownWithoutHidden(sortType, sorted) ==
    LET kept == SelectSeq(sorted, LAMBDA p : DisplayAfter(sortType, p) # "none")
    IN  [i \in 1..Len(kept) |-> [kept[i].card EXCEPT !.display = "block"]]

\* lines 238-248: the sorted cards as they are appended, with their new display
RECURSIVE Shown(_, _)
Shown(sortType, sorted) ==
    IF sorted = <<>> THEN <<>>
    ELSE <<[Head(sorted).card EXCEPT !.display = DisplayAfter(sortType, Head(sorted))]>>
         \o Shown(sortType, Tail(sorted))

\* the children of a parent once the given nodes have been moved elsewhere
Without(children, nodes) == SelectSeq(children, LAMBDA c : c \notin nodes)

\* sortClusters(sortType), called from the click on the sort button btn
sortClusters(sortType, btn) ==
    /\ activeBtn' = btn
    /\ \E parsed \in {Parsed(GridCards)} :
       \E sorted \in SortOutcomes(parsed, sortType) :
        \* appendChild moves each node from its parent to the end of the grid
        /\ clusterGrid' = Without(clusterGrid, SeqRange(GridCards)) \o Shown(sortType, sorted)
        /\ topClustersGrid' = Without(topClustersGrid, SeqRange(GridCards))
    /\ lastOp' = sortType
    /\ UNCHANGED <<form, requests, spinner, resultsSection, warnings, aggregateDisplay,
                   topClustersSection, alertMsg, data, clusters, fmtIn, fmtOut, modal>>

(***************************************************************************)
(* The view alone: one payload rendered, then any sequence of sorts        *)
(***************************************************************************)
\* the strings that are not points: the empty string and one without digits
OddStrs == {StrEmpty, StrNotANumber}

\* the results mappings rendered: canonical strings under any set of the keys
\* 1..MaxKey, the same with an odd string under "Cluster 1", and each of them
\* with a key beyond the last cluster
ViewResults ==
    LET canonical == Mappings(1..MaxKey, CanonicalStrs)
        base == canonical \cup {WithKey(f, 1, s) : f \in canonical, s \in OddStrs}
    IN  base \cup {WithKey(f, LoopMax + 1, Str32) : f \in base}

\* the sets of clusters that have a detail record: the first only, or all
ViewDetailKeys == {{1}, 1..MaxKey}

ViewPayloads ==
    {SuccessPayload(res, [k \in det |-> DetailOf(k)], 0, <<>>, "") :
        res \in ViewResults, det \in ViewDetailKeys}

FmtUnset == [cls |-> "unset", text |-> <<>>]

\* the details modal of the page as loaded: empty and not shown
ModalClosed == [title |-> <<>>, content |-> <<>>, shown |-> FALSE]

\* the page as loaded: nothing rendered, no request sent
PageLoaded ==
    /\ form = [mathematics |-> "", english |-> "Select Grade"]
    /\ requests = [fetch |-> 0, json |-> 0, alert |-> 0]
    /\ spinner = "none"
    /\ resultsSection = "none"
    /\ warnings = 0
    /\ aggregateDisplay = [points |-> 0, top7 |-> <<>>]
    /\ clusterGrid = <<>>
    /\ topClustersGrid = <<>>
    /\ topClustersSection = "none"
    /\ activeBtn = "none"
    /\ alertMsg = "none"
    /\ data = NoData
    /\ clusters = <<>>
    /\ lastOp = "none"
    /\ modal = ModalClosed

Init ==
    /\ PageLoaded
    /\ fmtIn = <<>>
    /\ fmtOut = FmtUnset

\* the first response of a session is rendered
ViewRender ==
    /\ lastOp = "none"
    /\ \E d \in ViewPayloads : displayResults(d)
    /\ UNCHANGED <<form, requests, spinner, warnings, activeBtn, alertMsg, fmtIn, fmtOut, modal>>

ViewSort ==
    /\ \E sortType \in SortTypes : sortClusters(sortType, sortType)

ViewNext == ViewRender \/ ViewSort

SpecView == Init /\ [][ViewNext]_vars

(***************************************************************************)
(* The page: the form, the submit handler and its requests, the sort       *)
(* buttons.  alert() blocks the page: while a dialog is open (alertMsg is  *)
(* not "none") no handler runs, and the handler that raised it continues   *)
(* when the dialog is closed.                                              *)
(***************************************************************************)
\* what a grade field of the form may hold
FieldValues(f) ==
    IF f = "mathematics" THEN {"", "A"} ELSE {"Select Grade", "B+"}

\* the form as the page loads it, and as form.reset() restores it
BlankForm == [mathematics |-> "", english |-> "Select Grade"]

\* the number of submit handlers suspended at an await or at an alert
InFlight == requests.fetch + requests.json + requests.alert

\* the user picks a value in a field of the form
SetField ==
    /\ alertMsg = "none"
    /\ \E f \in {"mathematics", "english"} :
       \E v \in FieldValues(f) :
          /\ form[f] # v
          /\ form' = [form EXCEPT ![f] = v]
    /\ UNCHANGED <<requests, spinner, resultsSection, warnings, aggregateDisplay,
                   clusterGrid, topClustersGrid, topClustersSection, activeBtn,
                   alertMsg, data, clusters, lastOp, fmtIn, fmtOut, modal>>

resetForm ==
    /\ alertMsg = "none"
    /\ form' = BlankForm
    /\ resultsSection' = "none"
    /\ UNCHANGED <<requests, spinner, warnings, aggregateDisplay, clusterGrid,
                   topClustersGrid, topClustersSection, activeBtn, alertMsg, data,
                   clusters, lastOp, fmtIn, fmtOut, modal>>

loadSampleData ==
    /\ alertMsg = "none"
    /\ form' = [mathematics |-> "A", english |-> "B+"]
    /\ alertMsg' = "Sample data loaded"
    /\ UNCHANGED <<requests, spinner, resultsSection, warnings, aggregateDisplay,
                   clusterGrid, topClustersGrid, topClustersSection, activeBtn,
                   data, clusters, lastOp, fmtIn, fmtOut, modal>>

\* showLoading(show)
showLoading(show) == spinner' = IF show THEN "flex" ELSE "none"

\* the fields a handler would keep if it dropped only the empty values and
\* not the placeholder 'Select Grade'
GradesNotEmpty(f) == {k \in DOMAIN f : f[k] # ""}

\* lines 260-264: the fields that reach the grades object
Grades(f) == {k \in DOMAIN f : f[k] # "" /\ f[k] # "Select Grade"}

\* lines 252-270: a submit that fails the check alerts and returns
SubmitRejected ==
    /\ alertMsg = "none"
    /\ ~({"mathematics", "english"} \subseteq Grades(form))
    /\ alertMsg' = "Please enter grades"
    /\ UNCHANGED <<form, requests, spinner, resultsSection, warnings, aggregateDisplay,
                   clusterGrid, topClustersGrid, topClustersSection, activeBtn,
                   data, clusters, lastOp, fmtIn, fmtOut, modal>>

\* lines 252-283: a submit that passes the check shows the spinner and
\* suspends at await fetch(...)
SubmitSent ==
    /\ alertMsg = "none"
    /\ {"mathematics", "english"} \subseteq Grades(form)
    /\ InFlight < MaxInFlight
    /\ requests' = [requests EXCEPT !.fetch = @ + 1]
    /\ showLoading(TRUE)
    /\ UNCHANGED <<form, resultsSection, warnings, aggregateDisplay, clusterGrid,
                   topClustersGrid, topClustersSection, activeBtn, alertMsg, data,
                   clusters, lastOp, fmtIn, fmtOut, modal>>

\* line 277 resolves: the handler suspends at await response.json()
FetchResolved ==
    /\ alertMsg = "none"
    /\ requests.fetch > 0
    /\ requests' = [requests EXCEPT !.fetch = @ - 1, !.json = @ + 1]
    /\ UNCHANGED <<form, spinner, resultsSection, warnings, aggregateDisplay,
                   clusterGrid, topClustersGrid, topClustersSection, activeBtn,
                   alertMsg, data, clusters, lastOp, fmtIn, fmtOut, modal>>

\* line 277 rejects (network failure): the handler stops at the alert of line 304
FetchFailed ==
    /\ alertMsg = "none"
    /\ requests.fetch > 0
    /\ requests' = [requests EXCEPT !.fetch = @ - 1, !.alert = @ + 1]
    /\ alertMsg' = "Network error"
    /\ UNCHANGED <<form, spinner, resultsSection, warnings, aggregateDisplay,
                   clusterGrid, topClustersGrid, topClustersSection, activeBtn,
                   data, clusters, lastOp, fmtIn, fmtOut, modal>>

\* line 285 rejects (the body is not JSON): the same alert
JsonFailed ==
    /\ alertMsg = "none"
    /\ requests.json > 0
    /\ requests' = [requests EXCEPT !.json = @ - 1, !.alert = @ + 1]
    /\ alertMsg' = "Network error"
    /\ UNCHANGED <<form, spinner, resultsSection, warnings, aggregateDisplay,
                   clusterGrid, topClustersGrid, topClustersSection, activeBtn,
                   data, clusters, lastOp, fmtIn, fmtOut, modal>>

\* the results mappings of the responses of the modelled service
PageResults ==
    {<<>>,
     [k \in 1..3 |-> IF k = 3 THEN Str0 ELSE Str32],
     [k \in 1..2 |-> IF k = 1 THEN Str0 ELSE Str15]}

PageTop7 == <<[subject |-> "mathematics", points |-> 12]>>

\* aggregate_points with its top_7_subjects, and the warning, of a response
PageSummaries ==
    {[agg |-> 60, top7 |-> PageTop7, warning |-> ""],
     [agg |-> 0, top7 |-> <<>>, warning |-> "Fewer than 7 subjects"]}

PagePayloads ==
    {SuccessPayload(res, [k \in DOMAIN res |-> DetailOf(k)], s.agg, s.top7, s.warning) :
        res \in PageResults, s \in PageSummaries}

ErrorPayloads ==
    {[NoData EXCEPT !.error = e] : e \in {"", "Invalid grade"}}

\* lines 285-299, 306-308: the body is a success payload
ResponseRendered ==
    /\ alertMsg = "none"
    /\ requests.json > 0
    /\ requests' = [requests EXCEPT !.json = @ - 1]
    /\ \E d \in PagePayloads :
          /\ displayResults(d)
          /\ IF d.warning # ""
             THEN /\ warnings < MaxWarnings
                  /\ warnings' = warnings + 1
             ELSE warnings' = warnings
    /\ showLoading(FALSE)
    /\ UNCHANGED <<form, activeBtn, alertMsg, fmtIn, fmtOut, modal>>

\* the handler without the test of data.success: the body is rendered,
\* then the alert is raised
ResponseErrorRendered ==
    /\ alertMsg = "none"
    /\ requests.json > 0
    /\ requests' = [requests EXCEPT !.json = @ - 1, !.alert = @ + 1]
    /\ \E d \in {[NoData EXCEPT !.error = e] : e \in {"", "Invalid grade"}} :
          /\ displayResults(d)
          /\ alertMsg' = IF d.error # "" THEN "Error calculating points: " \o d.error
                         ELSE "Error calculating points: Unknown error"
    /\ UNCHANGED <<form, spinner, warnings, activeBtn, fmtIn, fmtOut, modal>>

\* lines 285-287, 300-301: the body says success is false; the handler stops
\* at the alert
ResponseError ==
    /\ alertMsg = "none"
    /\ requests.json > 0
    /\ requests' = [requests EXCEPT !.json = @ - 1, !.alert = @ + 1]
    /\ \E d \in ErrorPayloads :
          alertMsg' = IF d.error # "" THEN "Error calculating points: " \o d.error
                      ELSE "Error calculating points: Unknown error"
    /\ UNCHANGED <<form, spinner, resultsSection, warnings, aggregateDisplay,
                   clusterGrid, topClustersGrid, topClustersSection, activeBtn,
                   data, clusters, lastOp, fmtIn, fmtOut, modal>>

\* the dialog is closed; a submit handler stopped at it runs to its end
\* (lines 306-308)
AlertClosed ==
    /\ alertMsg # "none"
    /\ alertMsg' = "none"
    /\ IF requests.alert > 0
       THEN /\ requests' = [requests EXCEPT !.alert = @ - 1]
            /\ showLoading(FALSE)
       ELSE UNCHANGED <<requests, spinner>>
    /\ UNCHANGED <<form, resultsSection, warnings, aggregateDisplay, clusterGrid,
                   topClustersGrid, topClustersSection, activeBtn, data, clusters,
                   lastOp, fmtIn, fmtOut, modal>>

\* a click on a sort button: its onclick runs sortClusters with the button's
\* mode, and the listener of lines 316-319 marks the same button active
SortClick ==
    /\ alertMsg = "none"
    /\ \E sortType \in SortTypes : sortClusters(sortType, sortType)

Next ==
    \/ SetField
    \/ resetForm
    \/ loadSampleData
    \/ SubmitRejected
    \/ SubmitSent
    \/ FetchResolved
    \/ FetchFailed
    \/ JsonFailed
    \/ ResponseRendered
    \/ ResponseError
    \/ AlertClosed
    \/ SortClick

Spec == Init /\ [][Next]_vars

(***************************************************************************)
(* Vocabulary of the properties                                            *)
(***************************************************************************)
\* displayResults has run
Rendered == data.success

\* the id a card shows, and the points its payload entry parses to
IdOf(card) == parseInt(card.number).n
PointsOfId(k) == parseFloat(data.results[k])
GridIds == [i \in 1..Len(clusterGrid) |-> IdOf(clusterGrid[i])]
TopIds == [i \in 1..Len(topClustersGrid) |-> IdOf(topClustersGrid[i])]
Visible(card) == card.display # "none"

\* the payload satisfies the data model: canonical strings of non-negative points
Canonical(d) == \A k \in DOMAIN d.results : d.results[k] \in CanonicalStrs
AllParse(d) == \A k \in DOMAIN d.results : ~parseFloat(d.results[k]).nan

\* the ids 1..20 whose key is in the results mapping, and those holding a
\* non-empty string
KeysPresent(d) == {k \in 1..LoopMax : k \in DOMAIN d.results}
KeysNonEmpty(d) == {k \in KeysPresent(d) : d.results[k] # StrEmpty}
NonZeroIds(d) == {k \in KeysNonEmpty(d) : ~NumEq(parseFloat(d.results[k]), Num(0))}

\* j comes before k in the order "descending points, ties by ascending id"
Before(j, k) ==
    \/ NumGt(PointsOfId(j), PointsOfId(k))
    \/ NumEq(PointsOfId(j), PointsOfId(k)) /\ j < k
RankOf(k) == 1 + Cardinality({j \in KeysNonEmpty(data) : Before(j, k)})

Min(a, b) == IF a < b THEN a ELSE b

(***************************************************************************)
(* C1                                                                      *)
(***************************************************************************)
\* C1: for a canonical payload, in the grid as rendered by displayResults and
\* after a sortClusters('points') call, whatever sorts came before it: points
\* are non-increasing along the grid, cards of equal points appear with the
\* smaller id first, and every card is visible.
C1_PointsMode ==
    (lastOp \in {"render", "points"} /\ Canonical(data)) =>
        /\ \A i, j \in 1..Len(clusterGrid) :
              i < j => /\ ~NumLt(PointsOfId(GridIds[i]), PointsOfId(GridIds[j]))
                       /\ NumEq(PointsOfId(GridIds[i]), PointsOfId(GridIds[j]))
                             => GridIds[i] < GridIds[j]
        /\ \A i \in 1..Len(clusterGrid) : Visible(clusterGrid[i])

\* a points sort has run on a grid that holds a tie above a zero-point card
\* with a smaller id, after a sort had set the display of the cards
C1_Witness ==
    /\ lastOp = "points"
    /\ Canonical(data)
    /\ GridIds = <<2, 3, 1>>
    /\ NumEq(PointsOfId(2), PointsOfId(3))
    /\ clusterGrid[3].display = "block"

(***************************************************************************)
(* C2                                                                      *)
(***************************************************************************)
\* C2: a step that leaves a sort as the last operation on the grid (every
\* sortClusters call, of any mode, in any state) leaves the highlight grid
\* exactly as it was: the same cards, in the same order, with the same
\* "Top k" badges, and the section as visible as before.
C2_HighlightIndependence ==
    [][lastOp' \in SortTypes =>
          /\ topClustersGrid' = topClustersGrid
          /\ topClustersSection' = topClustersSection]_vars

\* a sort has put the grid in an order other than the highlight order while
\* the highlight grid holds three ranked cards
C2_Witness ==
    /\ lastOp = "number"
    /\ Len(topClustersGrid) = TopN
    /\ GridIds = <<1, 2, 3>>
    /\ TopIds = <<2, 3, 1>>
    /\ \A i \in 1..TopN : topClustersGrid[i].badge = i

(***************************************************************************)
(* C3                                                                      *)
(***************************************************************************)
\* C3: for a canonical payload, after a sortClusters('non-zero') call the
\* visible cards are exactly the cards whose points are not zero, and any two
\* visible cards are in the points-mode order (descending points, ties by
\* ascending id).
C3_NonZeroMode ==
    (lastOp = "non-zero" /\ Canonical(data)) =>
        /\ \A i \in 1..Len(clusterGrid) :
              Visible(clusterGrid[i]) <=> GridIds[i] \in NonZeroIds(data)
        /\ {GridIds[i] : i \in 1..Len(clusterGrid)} = KeysNonEmpty(data)
        /\ \A i, j \in 1..Len(clusterGrid) :
              (i < j /\ Visible(clusterGrid[i]) /\ Visible(clusterGrid[j]))
                  => Before(GridIds[i], GridIds[j])

\* a non-zero sort has hidden a zero-point card and kept two tied cards
\* visible in id order
C3_Witness ==
    /\ lastOp = "non-zero"
    /\ Canonical(data)
    /\ GridIds = <<2, 3, 1>>
    /\ NumEq(PointsOfId(2), PointsOfId(3))
    /\ ~Visible(clusterGrid[3])
    /\ Visible(clusterGrid[1]) /\ Visible(clusterGrid[2])

(***************************************************************************)
(* C4                                                                      *)
(***************************************************************************)
\* C4: after a sortClusters('number') call, for any payload, the card ids are
\* strictly ascending (so without duplicates), every id is within 1..20, and
\* every card is visible.
C4_NumberMode ==
    lastOp = "number" =>
        /\ \A i, j \in 1..Len(clusterGrid) : i < j => GridIds[i] < GridIds[j]
        /\ \A i \in 1..Len(clusterGrid) : GridIds[i] \in 1..LoopMax
        /\ \A i \in 1..Len(clusterGrid) : Visible(clusterGrid[i])

\* a number sort has run on a payload that carries a key beyond 20 and whose
\* points order differs from the id order, and a zero-point card is shown
C4_Witness ==
    /\ lastOp = "number"
    /\ (LoopMax + 1) \in DOMAIN data.results
    /\ GridIds = <<1, 2, 3>>
    /\ NumEq(PointsOfId(1), Num(0))
    /\ NumGt(PointsOfId(3), PointsOfId(2))
    /\ clusterGrid[1].display = "block"

(***************************************************************************)
(* C6                                                                      *)
(***************************************************************************)
ClusterIdSeq == [i \in 1..Len(clusters) |-> clusters[i].id]

\* C6 as stated: displayResults builds a record for every id in 1..20 whose
\* key is in the results mapping, and for no other id.
C6_RecordPerPresentKey ==
    Rendered => {ClusterIdSeq[i] : i \in 1..Len(clusters)} = KeysPresent(data)

\* C6, amended: displayResults builds exactly one record for every id in 1..20
\* whose key is in the results mapping with a non-empty string, and none for
\* an absent key or an empty string; the records are built in strictly
\* ascending id order; a record's description is the detail record's
\* description, and empty when the cluster has no detail record.
C6_Normalization ==
    Rendered =>
        /\ {ClusterIdSeq[i] : i \in 1..Len(clusters)} = KeysNonEmpty(data)
        /\ \A i, j \in 1..Len(clusters) : i < j => ClusterIdSeq[i] < ClusterIdSeq[j]
        /\ \A i \in 1..Len(clusters) :
              /\ clusters[i].pointsFormatted = data.results[clusters[i].id]
              /\ clusters[i].name = ClusterKey(clusters[i].id)
              /\ clusters[i].description =
                    IF clusters[i].id \in DOMAIN data.details
                    THEN data.details[clusters[i].id].description ELSE <<>>

\* a payload with an absent key, a key beyond 20 and a cluster without detail
\* record has been normalized
C6_Witness ==
    /\ Rendered
    /\ ClusterIdSeq = <<1, 3>>
    /\ DOMAIN data.results = {1, 3, LoopMax + 1}
    /\ DOMAIN data.details = {1}
    /\ clusters[2].description = <<>>
    /\ clusters[1].description # <<>>

(***************************************************************************)
(* C7                                                                      *)
(***************************************************************************)
\* C7: a results entry whose string does not parse to a number is left out of
\* the rendered clusters: no card of the grid carries its id.
C7_ParseFailureOmitted ==
    Rendered =>
        \A k \in KeysPresent(data) :
            parseFloat(data.results[k]).nan =>
                \A i \in 1..Len(clusterGrid) : GridIds[i] # k

ExampleResults == [k \in 1..3 |-> IF k = 3 THEN Str0 ELSE Str32]

\* C9 as stated: when fewer than three clusters have non-zero points, the
\* highlight grid holds only clusters with non-zero points.
C9_NoZeroInHighlights ==
    (Rendered /\ Canonical(data) /\ Cardinality(NonZeroIds(data)) < TopN) =>
        \A i \in 1..Len(topClustersGrid) : TopIds[i] \in NonZeroIds(data)

\* C9, amended: when fewer than three clusters have non-zero points, the
\* highlight grid still holds min(3, m) cards: every cluster with non-zero
\* points, followed by zero-point clusters in ascending id order, each with
\* its position as rank; for the example results it is cluster 1 with rank 1,
\* cluster 2 with rank 2 and cluster 3 with rank 3.
C9_ZeroPadding ==
    (Rendered /\ Canonical(data) /\ Cardinality(NonZeroIds(data)) < TopN) =>
        LET nz == Cardinality(NonZeroIds(data))
        IN  /\ Len(topClustersGrid) = Min(TopN, Cardinality(KeysNonEmpty(data)))
            /\ \A i \in 1..Len(topClustersGrid) :
                  /\ (i <= nz) <=> (TopIds[i] \in NonZeroIds(data))
                  /\ topClustersGrid[i].badge = i
                  /\ i > nz => /\ topClustersGrid[i].pointsText = ZeroText
                               /\ \A k \in KeysNonEmpty(data) \ NonZeroIds(data) :
                                     k < TopIds[i] =>
                                        \E j \in 1..(i - 1) : TopIds[j] = k
            /\ data.results = ExampleResults =>
                  /\ TopIds = <<1, 2, 3>>
                  /\ [i \in 1..3 |-> topClustersGrid[i].badge] = <<1, 2, 3>>

\* the example results have been rendered
C9_Witness ==
    /\ Rendered
    /\ data.results = ExampleResults
    /\ Len(topClustersGrid) = 3
    /\ topClustersGrid[3].pointsText = ZeroText

(***************************************************************************)
(* formatClusterPoints alone: one call on a string of the bounded set      *)
(***************************************************************************)
FmtAlphabet == {"0", "1", "3", "5", "9", ".", "-", "x"}

\* the band limits and their neighbours, as the service would write them
FmtBoundaryStrs ==
    {Str0, Str15, Str32,
     <<"0", ".", "0", "0">>,
     <<"0", ".", "0", "0", "1">>,
     <<"1", "4", ".", "9", "9", "9">>,
     <<"1", "5", ".", "0", "0", "1">>,
     <<"2", "9", ".", "9", "9", "9">>,
     <<"3", "0", ".", "0", "0", "0">>,
     <<"4", "8", ".", "0", "0", "0">>,
     <<"-", "5", ".", "0", "0", "0">>}

FmtInputs ==
    FmtBoundaryStrs \cup UNION {[1..n -> FmtAlphabet] : n \in 0..MaxLen}

InitFmt ==
    /\ PageLoaded
    /\ fmtIn \in FmtInputs
    /\ fmtOut = FmtUnset

FmtCall ==
    /\ fmtOut = FmtUnset
    /\ fmtOut' = formatClusterPoints(fmtIn)
    /\ UNCHANGED <<form, requests, spinner, resultsSection, warnings, aggregateDisplay,
                   clusterGrid, topClustersGrid, topClustersSection, activeBtn, alertMsg,
                   data, clusters, lastOp, fmtIn, modal>>

SpecFmt == InitFmt /\ [][FmtCall]_vars

(***************************************************************************)
(* C5                                                                      *)
(***************************************************************************)
\* the tier a returned markup stands for
TierOf(out) ==
    CASE out.cls = "points-high" -> "high"
      [] out.cls = "points-medium" -> "medium"
      [] out.cls = "" -> "low"
      [] out.cls = "points-zero" -> "zero"

\* C5: for every string whose value is a number, formatClusterPoints gives
\* tier zero and the text "0.000" when the value is 0, whatever the string;
\* tier high for a value >= 30, medium for 15 <= value < 30, low for
\* 0 < value < 15, each with the string itself as text.  "30" is high,
\* "29.999" medium, "15" medium, "14.999" low, "0" and "0.00" are zero.
C5_Tiers ==
    fmtOut # FmtUnset =>
        LET num == parseFloat(fmtIn)
            tier == TierOf(fmtOut)
        IN  /\ NumEq(num, Num(0)) => tier = "zero" /\ fmtOut.text = <<"0", ".", "0", "0", "0">>
            /\ NumGe(num, Num(30)) => tier = "high" /\ fmtOut.text = fmtIn
            /\ (NumGe(num, Num(15)) /\ NumLt(num, Num(30))) =>
                  tier = "medium" /\ fmtOut.text = fmtIn
            /\ (NumGt(num, Num(0)) /\ NumLt(num, Num(15))) =>
                  tier = "low" /\ fmtOut.text = fmtIn
            /\ fmtIn \in {<<"3", "0">>, <<"3", "0", ".", "0", "0", "0">>} => tier = "high"
            /\ fmtIn \in {<<"2", "9", ".", "9", "9", "9">>, <<"1", "5">>, Str15} =>
                  tier = "medium"
            /\ fmtIn = <<"1", "4", ".", "9", "9", "9">> => tier = "low"
            /\ fmtIn \in {<<"0">>, <<"0", ".", "0", "0">>, Str0} =>
                  tier = "zero" /\ fmtOut.text = <<"0", ".", "0", "0", "0">>

\* a zero written otherwise than "0.000" has been formatted to "0.000"
C5_Witness ==
    /\ fmtIn = <<"0", ".", "0", "0">>
    /\ fmtOut = [cls |-> "points-zero", text |-> ZeroText]

(***************************************************************************)
(* C10                                                                     *)
(***************************************************************************)
FailureAlerts ==
    {"Network error", "Error calculating points: Invalid grade",
     "Error calculating points: Unknown error"}

\* C10: a step in which a submit handler ends in failure (a response with
\* success false, a rejected fetch or a body that is not JSON) leaves the
\* cluster grid, the highlight grid and its section, and the aggregate display
\* exactly as they were and opens an alert that reports the failure; and
\* every step in which displayResults takes a new payload takes one whose
\* success is true.
C10_RenderOnlyOnSuccess ==
    [][/\ requests'.alert > requests.alert =>
            /\ clusterGrid' = clusterGrid
            /\ topClustersGrid' = topClustersGrid
            /\ topClustersSection' = topClustersSection
            /\ aggregateDisplay' = aggregateDisplay
            /\ resultsSection' = resultsSection
            /\ data' = data
            /\ alertMsg = "none"
            /\ alertMsg' \in FailureAlerts
       /\ (data' # data \/ (lastOp' = "render" /\ lastOp # "render")) => data'.success
       /\ (requests'.fetch + requests'.json < requests.fetch + requests.json) =>
            \/ requests'.alert > requests.alert
            \/ (data'.success /\ lastOp' = "render")]_vars

\* a response with success false is being reported while the results of an
\* earlier response are on display and another request is in flight
C10_Witness ==
    /\ alertMsg = "Error calculating points: Invalid grade"
    /\ requests.alert = 1
    /\ requests.fetch = 1
    /\ GridIds = <<1, 2, 3>>
    /\ Len(topClustersGrid) = 3
    /\ aggregateDisplay.points = 60
    /\ spinner = "flex"

(***************************************************************************)
(* C11                                                                     *)
(***************************************************************************)
\* a card of the grid without its visibility
Undisplayed(card) == [card EXCEPT !.display = ""]

\* the cards displayResults builds for the payload d
CardsOf(d) == {ClusterCard(c) : c \in SeqRange(BuildClusters(d, LoopMax))}

\* the cluster of the last payload that has rank r
ClusterOfRank(r) ==
    CHOOSE c \in SeqRange(BuildClusters(data, LoopMax)) : RankOf(c.id) = r

\* C11 (as claimed): at every moment after a response was rendered, whatever
\* requests overlapped, the cards of the grid, the highlight cards and the
\* aggregate display are those of the payload rendered last.
C11_LatestDelivered ==
    Rendered =>
        /\ {Undisplayed(clusterGrid[i]) : i \in 1..Len(clusterGrid)} = CardsOf(data)
        /\ Len(clusterGrid) = Cardinality(CardsOf(data))
        /\ Len(topClustersGrid) = Min(TopN, Cardinality(KeysNonEmpty(data)))
        /\ \A i \in 1..Len(topClustersGrid) :
              topClustersGrid[i] = TopCard(ClusterOfRank(i), i)
        /\ aggregateDisplay = [points |-> data.aggregate_points,
                               top7 |-> data.top_7_subjects]

\* the part of C11 that the handler keeps: clusters and highlights are those
\* of the payload rendered last
C11_LatestClusters ==
    Rendered =>
        /\ {Undisplayed(clusterGrid[i]) : i \in 1..Len(clusterGrid)} = CardsOf(data)
        /\ Len(clusterGrid) = Cardinality(CardsOf(data))
        /\ Len(topClustersGrid) = Min(TopN, Cardinality(KeysNonEmpty(data)))
        /\ \A i \in 1..Len(topClustersGrid) :
              topClustersGrid[i] = TopCard(ClusterOfRank(i), i)

(***************************************************************************)
(* The details modal: one payload rendered, then clicks on its cards       *)
(***************************************************************************)
\* the denominator written after the total of a cluster (line 79)
ClusterMax == 48

\* the most entries a subjects_used list of the modelled responses has
MaxSubjects == 2

SubjectEntries ==
    {[subject |-> "mathematics", grade |-> "A", points |-> 12],
     [subject |-> "english", grade |-> "B+", points |-> 10]}

SubjectLists == UNION {[1..n -> SubjectEntries] : n \in 0..MaxSubjects}

\* the details mappings of the responses: none, or a record for cluster 1
\* alone or for clusters 1 and 2, the list being that of cluster 1
DetailMaps ==
    {<<>>} \cup
    {[k \in K |-> [description |-> <<"about ">> \o ToString(k),
                   subjects_used |-> IF k = 1 THEN l ELSE <<>>]] :
        K \in {{1}, {1, 2}}, l \in SubjectLists}

DetailPayloads ==
    {SuccessPayload(res, det, 0, <<>>, "") :
        res \in Mappings(1..2, {Str0, Str32}), det \in DetailMaps}

\* showClusterDetails(clusterId, clusterName, points, subjectsUsed): line 53
\* writes the title; then line 58 (a non-empty list) or line 83 (any list)
\* reads html, a name that no line of the script declares, which throws a
\* ReferenceError: lines 83-87 do not run, the content is not written and
\* the modal is not shown
showClusterDetails(clusterId, clusterName, points, subjectsUsed) ==
    modal' = [modal EXCEPT !.title = clusterName \o <<" Details">>]

\* lines 141-151, 174-184: a click on a card of the cluster c, in the grid or
\* among the highlights
CardClicked(c) ==
    IF c.id \in DOMAIN data.details
    THEN showClusterDetails(c.id, c.name, c.pointsFormatted,
                            data.details[c.id].subjects_used)
    ELSE modal' = modal

DetailRender ==
    /\ lastOp = "none"
    /\ \E d \in DetailPayloads : displayResults(d)
    /\ UNCHANGED <<form, requests, spinner, warnings, activeBtn, alertMsg, fmtIn,
                   fmtOut, modal>>

DetailClick ==
    /\ \E c \in SeqRange(clusters) : CardClicked(c)
    /\ UNCHANGED <<form, requests, spinner, resultsSection, warnings, aggregateDisplay,
                   clusterGrid, topClustersGrid, topClustersSection, activeBtn,
                   alertMsg, data, clusters, lastOp, fmtIn, fmtOut>>

DetailNext == DetailRender \/ DetailClick

SpecDetail == Init /\ [][DetailNext]_vars

(***************************************************************************)
(* C12                                                                     *)
(***************************************************************************)
\* the sum of the points fields of a subjects_used list
RECURSIVE SumPoints(_)
SumPoints(l) == IF l = <<>> THEN 0 ELSE l[1].points + SumPoints(Tail(l))

\* the modal was last written for the cluster k
TitleOf(k) == modal.title = ClusterKey(k) \o <<" Details">>

\* C12 (as claimed): once a card of a cluster that has a detail record with a
\* non-empty subjects_used list was clicked, the modal is shown and its
\* content ends with the total, the sum of the points of the list, over the
\* denominator 48.
C12_DetailTotal ==
    \A k \in DOMAIN data.details :
        (TitleOf(k) /\ data.details[k].subjects_used # <<>>) =>
            /\ modal.shown
            /\ modal.content # <<>>
            /\ modal.content[Len(modal.content)] =
                  [total |-> SumPoints(data.details[k].subjects_used),
                   denominator |-> ClusterMax]

(***************************************************************************)
(* C13                                                                     *)
(***************************************************************************)
\* the payload yields no record, and: it yields records, all of zero points
EmptyResult(d) == BuildClusters(d, LoopMax) = <<>>
AllZeroResult(d) ==
    /\ ~EmptyResult(d)
    /\ \A k \in KeysNonEmpty(d) : NumEq(parseFloat(d.results[k]), Num(0))

\* C13 (as claimed): after displayResults rendered a payload that yields no
\* record, the results section that holds the ranking grid and the highlight
\* section are both hidden; after it rendered a payload whose clusters all
\* have zero points, both are shown, with a card for every cluster.
C13_EmptySuppressed ==
    lastOp = "render" =>
        /\ EmptyResult(data) =>
              resultsSection = "none" /\ topClustersSection = "none"
        /\ AllZeroResult(data) =>
              /\ resultsSection = "block"
              /\ topClustersSection = "block"
              /\ Len(clusterGrid) = Cardinality(KeysNonEmpty(data))

\* what the code does for C13's two cases: the highlight section alone is
\* hidden for an empty result, and the results section is shown with a grid
\* of no card
C13_EmptyGridShown ==
    lastOp = "render" =>
        /\ EmptyResult(data) =>
              /\ resultsSection = "block"
              /\ clusterGrid = <<>>
              /\ topClustersSection = "none"
        /\ AllZeroResult(data) =>
              /\ resultsSection = "block"
              /\ topClustersSection = "block"
              /\ Len(clusterGrid) = Cardinality(KeysNonEmpty(data))

(***************************************************************************)
(* C14                                                                     *)
(***************************************************************************)
\* C14: every step that is a sortClusters call, in any mode, leaves the grid
\* with the same number of cards and the same cards, each with its number,
\* points text and class, name, description, class name and badge as before;
\* only the order of the cards and their display may differ.
C14_ViewChangeOnly ==
    [][lastOp' \in SortTypes =>
          /\ Len(clusterGrid') = Len(clusterGrid)
          /\ {Undisplayed(clusterGrid'[i]) : i \in 1..Len(clusterGrid')} =
                {Undisplayed(clusterGrid[i]) : i \in 1..Len(clusterGrid)}
          /\ \A i \in 1..Len(clusterGrid') :
                CardPoints(clusterGrid'[i]) =
                   CardPoints(CHOOSE c \in SeqRange(clusterGrid) :
                                 c.number = clusterGrid'[i].number)]_vars

\* sortClusters('non-zero') ran on a grid of at least two cards, changed
\* their order, and left one hidden and one shown
C14_Witness ==
    /\ lastOp = "non-zero"
    /\ Len(clusterGrid) >= 2
    /\ GridIds[1] > GridIds[2]
    /\ \E i \in 1..Len(clusterGrid) : ~Visible(clusterGrid[i])
    /\ \E i \in 1..Len(clusterGrid) : Visible(clusterGrid[i])

(***************************************************************************)
(* C15                                                                     *)
(***************************************************************************)
\* the cards of the payload d as they are created, in the order of the loop
\* of lines 114-126
RECURSIVE CardSeq(_)
CardSeq(cs) == IF cs = <<>> THEN <<>> ELSE <<ClusterCard(Head(cs))>> \o CardSeq(Tail(cs))

\* the view of the payload d in the mode m: the grid sortClusters(m) makes of
\* the cards of d taken in ascending id order
ModeView(d, m) ==
    Shown(m, StableSort(Parsed(CardSeq(BuildClusters(d, LoopMax))), m))

\* C15: for every payload of the data model, a sortClusters(m) call that
\* follows a sortClusters(m) call leaves the order and the visibility of the
\* cards as they were (this for any payload), and after a sortClusters(m)
\* call the grid is the view of the rendered payload in the mode m, a
\* function of the payload and the mode alone, so the same whatever sorts
\* came before.
C15_SortFunctionOfMode ==
    /\ [][(lastOp \in SortTypes /\ lastOp' = lastOp) => clusterGrid' = clusterGrid]_vars
    /\ []((lastOp \in SortTypes /\ Canonical(data)) =>
             clusterGrid = ModeView(data, lastOp))

\* a points sort has run on a payload whose id order, points order and
\* non-zero view all differ: a tie of two clusters below a third, none zero
C15_Witness ==
    /\ lastOp = "points"
    /\ Canonical(data)
    /\ GridIds = <<3, 1, 2>>
    /\ NumEq(PointsOfId(1), PointsOfId(2))
    /\ clusterGrid = ModeView(data, "points")
    /\ clusterGrid # ModeView(data, "number")

(***************************************************************************)
(* C16                                                                     *)
(***************************************************************************)
\* the requests sent and not yet answered: the handlers waiting at await
\* fetch(...) or at await response.json()
Pending == requests.fetch + requests.json

\* C16 (as claimed): whenever a request of the submit handler is pending the
\* spinner is shown, and when no submit handler is running the spinner is
\* hidden, whatever the order in which overlapping requests are answered.
C16_SpinnerWhilePending ==
    /\ Pending > 0 => spinner = "flex"
    /\ InFlight = 0 => spinner = "none"

\* the half of C16 that the handler keeps: with no submit handler running
\* the spinner is hidden
C16_SpinnerHiddenWhenIdle == InFlight = 0 => spinner = "none"

(***************************************************************************)
(* C17                                                                     *)
(***************************************************************************)
\* C17 (as claimed): once a response has been rendered, the results section
\* holds one warning alert if the payload rendered last carried a warning,
\* and none if it did not.
C17_WarningOfLastResponse ==
    Rendered => warnings = (IF data.warning # "" THEN 1 ELSE 0)

\* what the handler does for C17: a warning alert is added for every rendered
\* payload that carries a warning, so there is at least one when the last
\* payload carried one
C17_WarningAdded ==
    (Rendered /\ data.warning # "") => warnings >= 1

(***************************************************************************)
(* C18                                                                     *)
(***************************************************************************)
\* the points the card shows
PointsShown(card) == CardPoints(card)

\* the grid is in the order and visibility of the mode m
ConformsTo(m) ==
    IF m = "number"
    THEN /\ \A i, j \in 1..Len(clusterGrid) : i < j => GridIds[i] < GridIds[j]
         /\ \A i \in 1..Len(clusterGrid) : Visible(clusterGrid[i])
    ELSE /\ \A i, j \in 1..Len(clusterGrid) :
               i < j => ~NumLt(PointsShown(clusterGrid[i]), PointsShown(clusterGrid[j]))
         /\ \A i \in 1..Len(clusterGrid) :
               Visible(clusterGrid[i]) <=>
                  (m = "points" \/ ~NumEq(PointsShown(clusterGrid[i]), Num(0)))

\* C18 (as claimed): while the sort button of the mode m is the active one,
\* the grid is in the order and visibility of the mode m, also after a new
\* response has been rendered.
C18_ActiveModeKept ==
    activeBtn \in SortTypes => ConformsTo(activeBtn)

\* what holds for C18: the grid conforms to the active mode as long as the
\* last write of the grid is the sortClusters call that made the mode active
C18_ActiveModeUntilRender ==
    (activeBtn \in SortTypes /\ lastOp # "render") => ConformsTo(activeBtn)

(***************************************************************************)
(* C19                                                                     *)
(***************************************************************************)
\* the form holds a grade in the field f
HasGrade(f) == form[f] \notin {"", "Select Grade"}

\* what the page displays of the results
Displayed ==
    <<resultsSection, warnings, aggregateDisplay, clusterGrid, topClustersGrid,
      topClustersSection>>

\* C19: a step that sends a request is taken with a grade in both the
\* mathematics and the english field of the form; a submit without one of
\* them opens the alert of line 268 and sends no request, leaves the spinner
\* as it was and leaves what the page displays of the results unchanged.
C19_SubmissionGate ==
    [][/\ requests'.fetch > requests.fetch =>
             HasGrade("mathematics") /\ HasGrade("english")
       /\ (alertMsg = "none" /\ alertMsg' = "Please enter grades") =>
             /\ ~(HasGrade("mathematics") /\ HasGrade("english"))
             /\ requests' = requests
             /\ spinner' = spinner
             /\ Displayed' = Displayed]_vars

\* a submit was rejected for the missing english grade, mathematics being
\* filled, with results on the page and no request in flight
C19_Witness ==
    /\ alertMsg = "Please enter grades"
    /\ form.mathematics = "A"
    /\ form.english = "Select Grade"
    /\ Rendered
    /\ InFlight = 0
    /\ spinner = "none"

====
